---------------------------- MODULE Spec2Model ----------------------------
(***************************************************************************)
(* A model of src/main.py: the application vulnerability tracking service. *)
(*                                                                         *)
(* State: the three process-wide stores (applications, all_dependencies,   *)
(* cache), the number of identifiers handed out, and the                   *)
(* create_application coroutines in progress (one record per task,         *)
(* suspended at its await points).  What a handler returns is an operator  *)
(* over the state it runs in (the ..._response definitions); the read      *)
(* handlers change no state.                                               *)
(*                                                                         *)
(* Strings that the code inspects character by character (the manifest)    *)
(* are sequences of one-character strings.  Python dicts are sequences of  *)
(* <<key, value>> pairs in insertion order.  The TTL cache is the sequence *)
(* of its links, oldest first; a link carries the time it has left before  *)
(* it expires instead of its absolute expiry time, so that no clock is     *)
(* needed and time is unbounded.                                           *)
(***************************************************************************)
EXTENDS Integers, Sequences, FiniteSets, TLC

VARIABLES
    applications,      \* dict app_id -> application record        (main.py:15)
    all_dependencies,  \* dict (name, version) -> dependency record (main.py:16)
    cache,             \* TTLCache links [key, value, remaining]    (main.py:17)
    uuid_count,        \* number of identifiers uuid.uuid4() has handed out
    tasks              \* the create_application coroutines

vars == <<applications, all_dependencies, cache, uuid_count, tasks>>

----------------------------------------------------------------------------
(* Program constants and model bounds *)

maxsize == 1000
ttl == 86400

MaxRegs == 2          \* registrations started in one behaviour

ParseMaxLen == 5      \* length of the manifests of ParseSpec

\* Time advances in steps of half a time-to-live.
TickStep == ttl \div 2

Tasks == {1, 2}

----------------------------------------------------------------------------
(* Python sequence and dict helpers *)

DictHas(d, k) == \E i \in 1..Len(d) : d[i][1] = k

DictGet(d, k) == d[CHOOSE i \in 1..Len(d) : d[i][1] = k][2]

DictKeys(d) == {d[i][1] : i \in 1..Len(d)}

DictValues(d) == [i \in 1..Len(d) |-> d[i][2]]

\* A dict assignment that loses every other entry.
DictSet_losing(d, k, v) == <<<<k, v>>>>

\* d[k] = v: an existing key keeps its position, a new key goes last.
DictSet(d, k, v) ==
    IF DictHas(d, k)
    THEN [i \in 1..Len(d) |-> IF d[i][1] = k THEN <<k, v>> ELSE d[i]]
    ELSE Append(d, <<k, v>>)

RECURSIVE any(_)
any(bools) ==
    IF bools = <<>> THEN FALSE
    ELSE IF Head(bools) THEN TRUE
    ELSE any(Tail(bools))

----------------------------------------------------------------------------
(* parse_requirements (main.py:38-56) *)

LineBreaks == {"\n", "\r"}
Whitespace == {" ", "\t"}
Unknown == <<"U", "n", "k", "n", "o", "w", "n">>

\* str.splitlines(): lines without their terminators; "\r\n" is one
\* terminator; no trailing empty line after a final terminator.
RECURSIVE splitlines_from(_, _, _)
splitlines_from(s, i, cur) ==
    IF i > Len(s) THEN (IF cur = <<>> THEN <<>> ELSE <<cur>>)
    ELSE IF s[i] \in LineBreaks
         THEN LET j == IF s[i] = "\r" /\ i < Len(s) /\ s[i + 1] = "\n"
                       THEN i + 2 ELSE i + 1
              IN  <<cur>> \o splitlines_from(s, j, <<>>)
         ELSE splitlines_from(s, i + 1, Append(cur, s[i]))

splitlines(s) == splitlines_from(s, 1, <<>>)

RECURSIVE lstrip(_)
lstrip(s) ==
    IF s # <<>> /\ Head(s) \in Whitespace THEN lstrip(Tail(s)) ELSE s

RECURSIVE rstrip(_)
rstrip(s) ==
    IF s # <<>> /\ s[Len(s)] \in Whitespace
    THEN rstrip(SubSeq(s, 1, Len(s) - 1)) ELSE s

strip(s) == rstrip(lstrip(s))

\* startswith that recognises no prefix.
startswith_never(s, c) == FALSE

startswith(s, c) == s # <<>> /\ Head(s) = c

\* OperatorAt with the one-character operators tried first.
OperatorAt_short_first(line, i) ==
    LET two == IF i < Len(line) THEN <<line[i], line[i + 1]>> ELSE <<>>
    IN  IF line[i] = ">" THEN 1
        ELSE IF line[i] = "<" THEN 1
        ELSE IF two = <<"=", "=">> THEN 2
        ELSE 0

\* Length of the match of r'==|>=|<=|>|<' at position i (0: no match);
\* the alternatives are tried in the order written.
OperatorAt(line, i) ==
    LET two == IF i < Len(line) THEN <<line[i], line[i + 1]>> ELSE <<>>
    IN  IF two = <<"=", "=">> THEN 2
        ELSE IF two = <<">", "=">> THEN 2
        ELSE IF two = <<"<", "=">> THEN 2
        ELSE IF line[i] = ">" THEN 1
        ELSE IF line[i] = "<" THEN 1
        ELSE 0

\* re.split(pattern, line, 1): split once at the leftmost match.
re_split(line) ==
    LET hits == {i \in 1..Len(line) : OperatorAt(line, i) > 0}
    IN  IF hits = {} THEN <<line>>
        ELSE LET i == CHOOSE h \in hits : \A g \in hits : h <= g
             IN  <<SubSeq(line, 1, i - 1),
                   SubSeq(line, i + OperatorAt(line, i), Len(line))>>

RECURSIVE parse_lines(_)
parse_lines(lines) ==
    IF lines = <<>> THEN <<>>
    ELSE LET line == strip(Head(lines))
             parts == re_split(line)
             name == strip(parts[1])
             version == IF Len(parts) > 1 THEN strip(parts[2]) ELSE Unknown
         IN  IF line # <<>> /\ ~startswith(line, "#")
             THEN <<[name |-> name, version |-> version]>>
                      \o parse_lines(Tail(lines))
             ELSE parse_lines(Tail(lines))

parse_requirements(requirements) == parse_lines(splitlines(requirements))

----------------------------------------------------------------------------
(* cachetools.TTLCache(maxsize, ttl) as main.py uses it (main.py:17) *)

\* key in cache: a link for the key exists and has not expired.
cache_contains(c, key) ==
    \E i \in 1..Len(c) : c[i].key = key /\ c[i].remaining > 0

\* cache_getitem answering the empty list whatever the link holds.
cache_getitem_empty(c, key) == <<>>

\* cache[key], read only after `key in cache` (main.py:71-72).
cache_getitem(c, key) ==
    c[CHOOSE i \in 1..Len(c) : c[i].key = key /\ c[i].remaining > 0].value

expire(c) == SelectSeq(c, LAMBDA e : e.remaining > 0)

RECURSIVE popitems(_, _)
popitems(c, n) == IF n <= 0 \/ c = <<>> THEN c ELSE popitems(Tail(c), n - 1)

\* cache[key] = value: drop the expired links, make room (oldest link
\* first) when the key is new, then put the key's link last with a full
\* time-to-live.
cache_setitem(c, key, value) ==
    LET live == expire(c)
        present == \E i \in 1..Len(live) : live[i].key = key
        room == IF present THEN live
                ELSE popitems(live, Len(live) + 1 - maxsize)
        others == SelectSeq(room, LAMBDA e : e.key # key)
    IN  Append(others, [key |-> key, value |-> value, remaining |-> ttl])

\* The cache after d seconds: every link has d less to live.  A link that
\* has nothing left is expired; it stays in the structure, invisible, until
\* the next cache[key] = value drops it.
cache_after(c, d) ==
    [i \in 1..Len(c) |->
        [c[i] EXCEPT !.remaining = IF @ > d THEN @ - d ELSE 0]]

----------------------------------------------------------------------------
(* Inputs *)

Names == {"A", "B"}
Descriptions == {"d"}

\* "# c\n\n p >= 1 \n"
ManifestP == <<"#", " ", "c", "\n", "\n", " ", "p", " ", ">", "=", " ", "1",
               " ", "\n">>
\* "q<2\nq<2": one key named twice
ManifestQQ == <<"q", "<", "2", "\n", "q", "<", "2">>

Manifests == {ManifestP, ManifestQQ}

KeyOf(d) == <<d.name, d.version>>

ManifestKeys ==
    UNION {{KeyOf(parse_requirements(m)[i]) :
                i \in 1..Len(parse_requirements(m))} : m \in Manifests}

\* A key no manifest names, for the lookups of unknown dependencies.
StrangerKey == <<<<"z">>, <<"9">>>>

QueryKeys == ManifestKeys \cup {StrangerKey}

AppIds == 0..MaxRegs

\* What the oracle can answer to one query: a network-level error, a
\* non-success status (whatever its body), or a 200 whose body may lack the
\* 'vulns' field.
VulnLists == {<<>>, <<"CVE-1">>}

OracleOutcomes ==
    {[kind |-> "RequestError", status_code |-> 0, body |-> <<>>],
     [kind |-> "response", status_code |-> 500,
      body |-> <<<<"vulns", <<"CVE-1">>>>>>],
     [kind |-> "response", status_code |-> 200, body |-> <<>>]}
    \cup {[kind |-> "response", status_code |-> 200,
           body |-> <<<<"vulns", v>>>>] : v \in VulnLists}

\* A coroutine record: where it is suspended, its arguments, the parsed
\* manifest, app_dependencies so far and, while it has not gone on since
\* its last oracle call returned, the time since that return, counted up
\* to ttl (-1 otherwise).
IdleTask == [pc |-> "idle", name |-> "", description |-> "", deps |-> <<>>,
             app_dependencies |-> <<>>, since_return |-> -1]

----------------------------------------------------------------------------
(* Initial state: the module-level stores of main.py:15-17, no request yet *)

Init ==
    /\ applications = <<>>
    /\ all_dependencies = <<>>
    /\ cache = <<>>
    /\ uuid_count = 0
    /\ tasks = [t \in Tasks |-> IdleTask]

----------------------------------------------------------------------------
(* fetch_vulnerabilities (main.py:59-94) *)

\* main.py:86: the branch that stores and returns the oracle's answer.
is_success(response) ==
    response.kind = "response" /\ response.status_code = 200

\* fetched_vulns without the status check of main.py:86.
fetched_vulns_unchecked(response) ==
    IF DictHas(response.body, "vulns")
    THEN DictGet(response.body, "vulns") ELSE <<>>

\* The list fetch_vulnerabilities returns after the oracle call:
\* response.json().get('vulns', []) on a 200, [] otherwise (main.py:87-94).
fetched_vulns(response) ==
    IF is_success(response)
    THEN (IF DictHas(response.body, "vulns")
          THEN DictGet(response.body, "vulns") ELSE <<>>)
    ELSE <<>>

\* cache_after_fetch keeping the entry the cache already shows for the key.
cache_after_fetch_keeping(key, response) ==
    IF is_success(response) /\ ~cache_contains(cache, key)
    THEN cache_setitem(cache, key, fetched_vulns(response))
    ELSE cache

\* The stores after the oracle call (main.py:88-89): written on a 200 only.
cache_after_fetch(key, response) ==
    IF is_success(response)
    THEN cache_setitem(cache, key, fetched_vulns(response))
    ELSE cache

\* all_dependencies_after_fetch writing the record whatever the outcome.
all_dependencies_after_fetch_always(key, response) ==
    DictSet(all_dependencies, key,
            [name |-> key[1], version |-> key[2],
             vulnerabilities |-> fetched_vulns(response)])

all_dependencies_after_fetch(key, response) ==
    IF is_success(response)
    THEN DictSet(all_dependencies, key,
                 [name |-> key[1], version |-> key[2],
                  vulnerabilities |-> fetched_vulns(response)])
    ELSE all_dependencies

\* The loop of main.py:130-132 while fetch_vulnerabilities answers from the
\* cache (main.py:71-72): no await suspends, so the iterations run as one
\* step.  snaps is app_dependencies so far.
RECURSIVE resolve_hits(_, _)
resolve_hits(deps, snaps) ==
    IF Len(snaps) < Len(deps)
       /\ cache_contains(cache, KeyOf(deps[Len(snaps) + 1]))
    THEN LET dep == deps[Len(snaps) + 1]
         IN  resolve_hits(deps,
                 Append(snaps,
                     [name |-> dep.name, version |-> dep.version,
                      vulnerabilities |->
                          cache_getitem(cache, KeyOf(dep))]))
    ELSE snaps

----------------------------------------------------------------------------
(* create_application (main.py:111-142) *)

\* has_vulnerabilities with all() in place of any().
has_vulnerabilities_all(dependencies) ==
    \A i \in 1..Len(dependencies) : Len(dependencies[i].vulnerabilities) > 0

has_vulnerabilities(dependencies) ==
    any([i \in 1..Len(dependencies) |->
            Len(dependencies[i].vulnerabilities) > 0])

InProgress == Cardinality({t \in Tasks : tasks[t].pc # "idle"})

\* The request arrives; the manifest is read and parsed (main.py:126-129).
create_application_begin(t, name, description, requirements_file) ==
    /\ tasks[t].pc = "idle"
    /\ uuid_count + InProgress < MaxRegs
    /\ tasks' = [tasks EXCEPT ![t] =
                    [pc |-> "resolving", name |-> name,
                     description |-> description,
                     deps |-> parse_requirements(requirements_file),
                     app_dependencies |-> <<>>, since_return |-> -1]]
    /\ UNCHANGED <<applications, all_dependencies, cache, uuid_count>>

\* The loop reaches a key that is not in the cache: the oracle is queried
\* and the coroutine suspends on the request (main.py:74-85).
fetch_vulnerabilities_miss(t) ==
    /\ tasks[t].pc = "resolving"
    /\ LET snaps == resolve_hits(tasks[t].deps, tasks[t].app_dependencies)
       IN  /\ Len(snaps) < Len(tasks[t].deps)
           /\ tasks' = [tasks EXCEPT
                  ![t].pc = "awaiting",
                  ![t].app_dependencies = snaps,
                  ![t].since_return = -1]
    /\ UNCHANGED <<applications, all_dependencies, cache, uuid_count>>

\* The oracle's answer (or the network's failure) arrives and
\* fetch_vulnerabilities resumes with it (main.py:86-94); the loop appends
\* the snapshot (main.py:132).
fetch_vulnerabilities_resume(t, response) ==
    /\ tasks[t].pc = "awaiting"
    /\ LET dep == tasks[t].deps[Len(tasks[t].app_dependencies) + 1]
           key == KeyOf(dep)
       IN  /\ cache' = cache_after_fetch(key, response)
           /\ all_dependencies' = all_dependencies_after_fetch(key, response)
           /\ tasks' = [tasks EXCEPT
                  ![t].pc = "resolving",
                  ![t].app_dependencies =
                      Append(@, [name |-> dep.name, version |-> dep.version,
                                 vulnerabilities |-> fetched_vulns(response)]),
                  ![t].since_return = 0]
    /\ UNCHANGED <<applications, uuid_count>>

\* An identifier generator that hands out the first stored identifier again.
uuid4_repeated ==
    IF applications = <<>> THEN uuid_count + 1 ELSE applications[1][1]

\* uuid.uuid4() (main.py:134): the next identifier never handed out before.
uuid4 == uuid_count + 1

\* new_application storing the snapshots in reverse order.
new_application_reversed(app_id, name, description, app_dependencies) ==
    [id |-> app_id, name |-> name, description |-> description,
     dependencies |->
         [i \in 1..Len(app_dependencies) |->
             app_dependencies[Len(app_dependencies) + 1 - i]]]

new_application(app_id, name, description, app_dependencies) ==
    [id |-> app_id, name |-> name, description |-> description,
     dependencies |-> app_dependencies]

\* The summary create_application returns (main.py:137-142).
create_application_response(app_id, name, description, app_dependencies) ==
    [status |-> 200,
     body |-> [app_id |-> app_id, name |-> name, description |-> description,
               has_vulnerabilities |-> has_vulnerabilities(app_dependencies)]]

\* The loop is over: the application is stored and its summary returned
\* (main.py:134-142).
create_application_finish(t) ==
    /\ tasks[t].pc = "resolving"
    /\ LET app_dependencies ==
               resolve_hits(tasks[t].deps, tasks[t].app_dependencies)
           app_id == uuid4
       IN  /\ Len(app_dependencies) = Len(tasks[t].deps)
           /\ applications' =
                  DictSet(applications, app_id,
                      new_application(app_id, tasks[t].name,
                          tasks[t].description, app_dependencies))
    /\ uuid_count' = uuid_count + 1
    /\ tasks' = [tasks EXCEPT ![t] = IdleTask]
    /\ UNCHANGED <<all_dependencies, cache>>

\* Time passes: the cache entries age, and those that reach their expiry
\* stop being visible.
tick ==
    /\ cache' = cache_after(cache, TickStep)
    /\ tasks' = [t \in Tasks |->
                    [tasks[t] EXCEPT !.since_return =
                        IF @ < 0 THEN @
                        ELSE IF @ + TickStep < ttl THEN @ + TickStep
                        ELSE ttl]]
    /\ UNCHANGED <<applications, all_dependencies, uuid_count>>

----------------------------------------------------------------------------
(* The read handlers (main.py:97-108, 145-219) *)

\* all_dependencies[(name, version)] raises KeyError for an unknown key.
raises_KeyError(name, version) == ~DictHas(all_dependencies, <<name, version>>)

\* is_dep_vulnerable answering False for every dependency.
is_dep_vulnerable_never(name, version) == FALSE

\* main.py:108, where the lookup does not raise.
is_dep_vulnerable(name, version) ==
    Len(DictGet(all_dependencies, <<name, version>>).vulnerabilities) > 0

\* The dict built at main.py:175-178 and 189-192.
dependency_view(d) ==
    [name |-> d.name, version |-> d.version,
     vulnerabilities |-> d.vulnerabilities,
     vulnerable |-> is_dep_vulnerable(d.name, d.version)]

\* A list comprehension over dependency_view: the first KeyError ends the
\* handler, and the framework answers 500.
dependency_views(ds) ==
    IF \E i \in 1..Len(ds) : raises_KeyError(ds[i].name, ds[i].version)
    THEN [status |-> 500, body |-> "KeyError"]
    ELSE [status |-> 200,
          body |-> [i \in 1..Len(ds) |-> dependency_view(ds[i])]]

application_summary(appl) ==
    [app_id |-> appl.id, name |-> appl.name, description |-> appl.description,
     has_vulnerabilities |-> has_vulnerabilities(appl.dependencies)]

\* main.py:145-158
get_applications_response ==
    [status |-> 200,
     body |-> [i \in 1..Len(applications) |->
                  application_summary(applications[i][2])]]

\* main.py:161-178
get_app_dependencies_response(app_id) ==
    IF ~DictHas(applications, app_id)
    THEN [status |-> 404, body |-> "Application not found"]
    ELSE dependency_views(DictGet(applications, app_id).dependencies)

\* main.py:181-192
get_dependencies_response ==
    dependency_views(DictValues(all_dependencies))

\* references with the comparison of main.py:217 dropped.
references_any(appl, name, version) == Len(appl.dependencies) > 0

\* main.py:217-218: the application holds the key.
references(appl, name, version) ==
    \E i \in 1..Len(appl.dependencies) :
        /\ appl.dependencies[i].name = name
        /\ appl.dependencies[i].version = version

\* main.py:216-218: the names of the applications that hold the key, in
\* registry order.
used_in(name, version) ==
    LET users == SelectSeq(DictValues(applications),
                           LAMBDA appl : references(appl, name, version))
    IN  [i \in 1..Len(users) |-> users[i].name]

\* The dict built at main.py:211-219.
dependency_detail(dependency) ==
    [name |-> dependency.name, version |-> dependency.version,
     vulnerabilities |-> dependency.vulnerabilities,
     vulnerable |-> is_dep_vulnerable(dependency.name, dependency.version),
     used_in |-> used_in(dependency.name, dependency.version)]

\* get_dependency_details_response answering an unknown key with an empty
\* list instead of the 404 of main.py:208-209.
get_dependency_details_response_empty(name, version) ==
    IF ~DictHas(all_dependencies, <<name, version>>)
    THEN [status |-> 200, body |-> <<>>]
    ELSE [status |-> 200,
          body |-> <<dependency_detail(
                         DictGet(all_dependencies, <<name, version>>))>>]

\* main.py:195-219
get_dependency_details_response(name, version) ==
    IF ~DictHas(all_dependencies, <<name, version>>)
    THEN [status |-> 404, body |-> "Dependency not found"]
    ELSE [status |-> 200,
          body |-> <<dependency_detail(
                         DictGet(all_dependencies, <<name, version>>))>>]

\* The read handlers return their response and leave every store as it is.
get_applications ==
    /\ get_applications_response.status = 200
    /\ UNCHANGED vars

get_app_dependencies(app_id) ==
    /\ get_app_dependencies_response(app_id).status \in {200, 404, 500}
    /\ UNCHANGED vars

get_dependencies ==
    /\ get_dependencies_response.status \in {200, 500}
    /\ UNCHANGED vars

\* get_dependency_details registering every key it is asked about.
get_dependency_details_registering(name, version) ==
    /\ all_dependencies' =
           IF DictHas(all_dependencies, <<name, version>>)
           THEN all_dependencies
           ELSE DictSet(all_dependencies, <<name, version>>,
                        [name |-> name, version |-> version,
                         vulnerabilities |-> <<>>])
    /\ UNCHANGED <<applications, cache, uuid_count, tasks>>

get_dependency_details(name, version) ==
    /\ get_dependency_details_response(name, version).status \in {200, 404}
    /\ UNCHANGED vars

----------------------------------------------------------------------------

Next ==
    \/ \E t \in Tasks, name \in Names, description \in Descriptions,
          requirements_file \in Manifests :
           create_application_begin(t, name, description, requirements_file)
    \/ \E t \in Tasks : fetch_vulnerabilities_miss(t)
    \/ \E t \in Tasks, response \in OracleOutcomes :
           fetch_vulnerabilities_resume(t, response)
    \/ \E t \in Tasks : create_application_finish(t)
    \/ tick
    \/ get_applications
    \/ \E app_id \in AppIds : get_app_dependencies(app_id)
    \/ get_dependencies
    \/ \E key \in QueryKeys : get_dependency_details(key[1], key[2])

Spec == Init /\ [][Next]_vars

----------------------------------------------------------------------------
(* parse_requirements on its own: one call of the parser (main.py:127),    *)
(* for every manifest of a bounded set.  The call is held in tasks; the    *)
(* stores stay empty.                                                      *)

ParseAlphabet == {"a", " ", "#", "\n", "\r", "=", ">", "<"}

\* Longer manifests: the example of the parser's contract, text that spells
\* the default version, tabs, and Windows line ends.
ParseExamples ==
    {<<"#", " ", "c", "o", "m", "m", "e", "n", "t", "\n", "\n",
       "f", "l", "a", "s", "k", "=", "=", "2", ".", "0", ".", "1", "\n",
       "r", "e", "q", "u", "e", "s", "t", "s", "\n",
       " ", " ", "d", "j", "a", "n", "g", "o", " ", ">", "=", " ", "3", ".",
       "2", " ", " ", "\n">>,
     <<"a", "=", "=">> \o Unknown,
     <<"\t", "a", " ", ">", "=", "\t", "1", "\t", "\r", "\n", "b", "<", "b",
       "=", "=", "2", "\r", "c">>}

ParseInputs ==
    UNION {[1..n -> ParseAlphabet] : n \in 0..ParseMaxLen} \cup ParseExamples

ParseInit ==
    /\ applications = <<>>
    /\ all_dependencies = <<>>
    /\ cache = <<>>
    /\ uuid_count = 0
    /\ tasks \in {[pc |-> "called", requirements |-> r, dependencies |-> <<>>] :
                      r \in ParseInputs}

\* parse_requirements returns its list (main.py:48-56).
parse_requirements_return ==
    /\ tasks.pc = "called"
    /\ tasks' = [tasks EXCEPT
           !.pc = "returned",
           !.dependencies = parse_requirements(tasks.requirements)]
    /\ UNCHANGED <<applications, all_dependencies, cache, uuid_count>>

ParseNext == parse_requirements_return

ParseSpec == ParseInit /\ [][ParseNext]_vars

----------------------------------------------------------------------------
(* Shorthands of the properties below *)

\* The lines of a manifest, trimmed, that are neither blank nor comments.
AcceptedLines(requirements) ==
    SelectSeq([i \in 1..Len(splitlines(requirements)) |->
                  strip(splitlines(requirements)[i])],
              LAMBDA l : l # <<>> /\ l[1] # "#")

IsSuffix(a, b) ==
    Len(a) <= Len(b) /\ SubSeq(b, Len(b) - Len(a) + 1, Len(b)) = a

\* The version-constraint operators in the order they are tried.
Operators == <<<<"=", "=">>, <<">", "=">>, <<"<", "=">>, <<">">>, <<"<">>>>

OccursAt(op, l, i) ==
    i + Len(op) - 1 <= Len(l) /\ SubSeq(l, i, i + Len(op) - 1) = op

HasOperator(l) ==
    \E i \in 1..Len(l), o \in 1..Len(Operators) : OccursAt(Operators[o], l, i)

\* Pair d is line l split once at its first operator: at the leftmost
\* position where an operator occurs, by the first operator of the list
\* that occurs there.
SplitAtFirstOperator(l, d) ==
    \E i \in 1..Len(l), o \in 1..Len(Operators) :
        /\ OccursAt(Operators[o], l, i)
        /\ \A j \in 1..(i - 1), q \in 1..Len(Operators) :
               ~OccursAt(Operators[q], l, j)
        /\ \A q \in 1..(o - 1) : ~OccursAt(Operators[q], l, i)
        /\ d.name = strip(SubSeq(l, 1, i - 1))
        /\ d.version = strip(SubSeq(l, i + Len(Operators[o]), Len(l)))

Apps == DictValues(applications)

Last(seq) == seq[Len(seq)]

IsPrefix(a, b) == Len(a) <= Len(b) /\ SubSeq(b, 1, Len(a)) = a

Count(seq, x) == Cardinality({u \in 1..Len(seq) : seq[u] = x})

HoldsKey(appl, key) ==
    key \in {KeyOf(appl.dependencies[j]) : j \in 1..Len(appl.dependencies)}

SomeVulnerable(appl) ==
    \E j \in 1..Len(appl.dependencies) :
        appl.dependencies[j].vulnerabilities # <<>>

\* The keys named by some manifest handed in so far: those of the stored
\* applications and of the registrations in progress.
AppearedKeys ==
    UNION {{KeyOf(Apps[i].dependencies[j]) :
                j \in 1..Len(Apps[i].dependencies)} : i \in 1..Len(Apps)}
    \cup UNION {{KeyOf(tasks[t].deps[j]) : j \in 1..Len(tasks[t].deps)} :
                    t \in Tasks}

\* The key task record tk is resolving or about to resolve.
PendingKey(tk) == KeyOf(tk.deps[Len(tk.app_dependencies) + 1])

\* In this step task t sends an oracle query / gets the oracle's answer /
\* stores its application.
Queries(t) == tasks[t].pc = "resolving" /\ tasks'[t].pc = "awaiting"
Returns(t) == tasks[t].pc = "awaiting" /\ tasks'[t].pc = "resolving"
Finishes(t) == tasks[t].pc = "resolving" /\ tasks'[t].pc = "idle"

\* What create_application returns when task t stores its application.
ReturnedSummary(t) ==
    create_application_response(uuid4, tasks[t].name, tasks[t].description,
        resolve_hits(tasks[t].deps, tasks[t].app_dependencies))

----------------------------------------------------------------------------
(* C1: in every reachable state, every (name, version) key in the          *)
(* dependency list of a stored application is a key of all_dependencies.   *)
(* The code breaks it: an application registered while the oracle fails    *)
(* is stored with a key fetch_vulnerabilities never put in all_dependencies.*)
C1_AppKeysInRegistry ==
    \A i \in 1..Len(Apps) : \A j \in 1..Len(Apps[i].dependencies) :
        DictHas(all_dependencies, KeyOf(Apps[i].dependencies[j]))

(* C2: whenever fetch_vulnerabilities misses the cache, then after it      *)
(* returns, whatever the oracle's outcome, the key is in the cache with    *)
(* the returned list and all_dependencies holds a record for the key with  *)
(* that list.  The code breaks it: on a failure nothing is written.        *)
C2_MissWritesCacheAndRegistry ==
    [][\A t \in Tasks :
          Returns(t) =>
              LET key == PendingKey(tasks[t])
                  returned == Last(tasks'[t].app_dependencies).vulnerabilities
              IN  /\ cache_contains(cache', key)
                  /\ cache_getitem(cache', key) = returned
                  /\ DictHas(all_dependencies', key)
                  /\ DictGet(all_dependencies', key).vulnerabilities = returned
      ]_vars

(* C3: of two resolutions of one key, the second starting after the first  *)
(* returned and less than ttl later, at most one queries the oracle: a     *)
(* registration whose last resolution queried the oracle does not query it *)
(* again for the same key less than ttl after that resolution returned.    *)
(* The code breaks it after a failed query (see C2).                       *)
C3_AtMostOneQueryWithinTtl ==
    [][\A t \in Tasks :
          (/\ Queries(t)
           /\ tasks[t].since_return >= 0
           /\ KeyOf(Last(tasks[t].app_dependencies)) = PendingKey(tasks'[t]))
              => tasks[t].since_return >= ttl
      ]_vars

(* C4: an oracle failure never fails the caller.  When the oracle raises   *)
(* a network-level error or answers with a non-success status,             *)
(* fetch_vulnerabilities returns the empty list and the registration goes  *)
(* on; the snapshots a registration has taken stay as they are until it    *)
(* ends; and it ends by storing the application with exactly these         *)
(* snapshots and returning its summary with status 200.                    *)
C4_OracleFailureFailsOpen ==
    [][\A t \in Tasks :
          /\ \A r \in OracleOutcomes :
                 (/\ Returns(t)
                  /\ ~is_success(r)
                  /\ fetch_vulnerabilities_resume(t, r)) =>
                     /\ tasks'[t].pc = "resolving"
                     /\ tasks'[t].app_dependencies =
                            Append(tasks[t].app_dependencies,
                                [name |-> PendingKey(tasks[t])[1],
                                 version |-> PendingKey(tasks[t])[2],
                                 vulnerabilities |-> <<>>])
          /\ (tasks[t].pc # "idle" /\ tasks'[t].pc # "idle") =>
                 IsPrefix(tasks[t].app_dependencies,
                          tasks'[t].app_dependencies)
          /\ Finishes(t) =>
                 /\ Len(applications') = Len(applications) + 1
                 /\ LET appl == Last(applications')[2]
                    IN  /\ IsPrefix(tasks[t].app_dependencies,
                                    appl.dependencies)
                        /\ Len(appl.dependencies) = Len(tasks[t].deps)
                        /\ ReturnedSummary(t).status = 200
                        /\ ReturnedSummary(t).body.app_id = appl.id
      ]_vars

\* An application is stored one of whose keys only a failed oracle query
\* can have left out of all_dependencies, with the empty list.
C4_Witness ==
    \E i \in 1..Len(Apps) : \E j \in 1..Len(Apps[i].dependencies) :
        /\ ~DictHas(all_dependencies, KeyOf(Apps[i].dependencies[j]))
        /\ Apps[i].dependencies[j].vulnerabilities = <<>>

(* C5: list-one-application's-dependencies has exactly two outcomes: 404   *)
(* for an identifier not in applications, and for every identifier in      *)
(* applications a 200 with one view per stored dependency.  The code       *)
(* breaks it: for an application registered while the oracle failed,       *)
(* is_dep_vulnerable raises KeyError and the request ends in a 500.        *)
C5_ListDependenciesFoundOrNotFound ==
    \A app_id \in AppIds :
        LET r == get_app_dependencies_response(app_id)
        IN  IF DictHas(applications, app_id)
            THEN /\ r.status = 200
                 /\ Len(r.body) =
                        Len(DictGet(applications, app_id).dependencies)
            ELSE r.status = 404

(* C6: the has_vulnerabilities flag reported by list-applications, and the *)
(* one returned by the registration itself, is true if and only if at      *)
(* least one entry of that application's stored dependency list has a      *)
(* non-empty vulnerability list.                                           *)
C6_HasVulnerabilitiesIffSomeDependencyVulnerable ==
    /\ [](LET r == get_applications_response
          IN  /\ r.status = 200
              /\ Len(r.body) = Len(Apps)
              /\ \A i \in 1..Len(Apps) :
                     /\ r.body[i].app_id = Apps[i].id
                     /\ r.body[i].has_vulnerabilities <=> SomeVulnerable(Apps[i]))
    /\ [][\A t \in Tasks :
             Finishes(t) =>
                 (ReturnedSummary(t).body.has_vulnerabilities
                      <=> SomeVulnerable(Last(applications')[2]))
         ]_vars

\* list-applications reports one application whose two snapshots differ
\* (one empty, one not) as vulnerable and another as not.
C6_Witness ==
    \E i, k \in 1..Len(Apps) :
        /\ get_applications_response.body[i].has_vulnerabilities
        /\ \E j \in 1..Len(Apps[i].dependencies) :
               Apps[i].dependencies[j].vulnerabilities = <<>>
        /\ ~get_applications_response.body[k].has_vulnerabilities

(* C7, as claimed: for a key in all_dependencies, get-dependency-detail    *)
(* answers 200 with a used_in list that contains the name of a stored      *)
(* application if and only if that application's dependency list contains  *)
(* the key.  It fails for two applications of one name of which only one   *)
(* holds the key: application names are not unique.                        *)
C7_UsedInIffApplicationHoldsKey ==
    \A key \in DictKeys(all_dependencies) :
        LET r == get_dependency_details_response(key[1], key[2])
        IN  /\ r.status = 200
            /\ \A i \in 1..Len(Apps) :
                   Count(r.body[1].used_in, Apps[i].name) > 0
                       <=> HoldsKey(Apps[i], key)

(* C7, amended: for a key in all_dependencies, get-dependency-detail       *)
(* answers 200 with a used_in list that holds one entry per stored         *)
(* application whose dependency list contains the key, that application's  *)
(* name: a name occurs in used_in as many times as there are stored        *)
(* applications of that name holding the key.                              *)
C7_UsedInNamesHolders ==
    \A key \in DictKeys(all_dependencies) :
        LET r == get_dependency_details_response(key[1], key[2])
        IN  /\ r.status = 200
            /\ Len(r.body) = 1
            /\ \A n \in Names :
                   Count(r.body[1].used_in, n) =
                       Cardinality({i \in 1..Len(Apps) :
                           Apps[i].name = n /\ HoldsKey(Apps[i], key)})

\* The detail view of a key held by one stored application and not by
\* another of a different name lists the first name only.
C7_Witness ==
    \E key \in DictKeys(all_dependencies) : \E i, k \in 1..Len(Apps) :
        /\ HoldsKey(Apps[i], key)
        /\ ~HoldsKey(Apps[k], key)
        /\ Apps[i].name # Apps[k].name
        /\ get_dependency_details_response(key[1], key[2]).body[1].used_in
               = <<Apps[i].name>>

(* C8: get-dependency-detail for a key that no manifest handed in so far   *)
(* names answers 404, never an empty list or a record.                     *)
C8_UnknownDependencyNotFound ==
    \A key \in QueryKeys \ AppearedKeys :
        get_dependency_details_response(key[1], key[2]).status = 404

\* all_dependencies holds a record, some manifest key has not been handed
\* in yet, and the lookup of that key answers 404.
C8_Witness ==
    /\ all_dependencies # <<>>
    /\ \E key \in ManifestKeys \ AppearedKeys :
           get_dependency_details_response(key[1], key[2]).status = 404

(* C9, as claimed: once a record for a key is in all_dependencies it is    *)
(* never removed and never changes.  It fails: a later resolution of the   *)
(* key that gets a 200 overwrites the record (main.py:89).                 *)
C9_RegistryRecordsNeverChange ==
    [][\A k \in DictKeys(all_dependencies) :
          /\ DictHas(all_dependencies', k)
          /\ DictGet(all_dependencies', k) = DictGet(all_dependencies, k)
      ]_vars

(* C9, amended: once a record for a key is in all_dependencies it is never *)
(* removed, and it changes only when a resolution of that key that missed  *)
(* the cache when it started gets a success answer from the oracle, which  *)
(* overwrites its vulnerability list with the answered list (the list then *)
(* in the cache).                                                          *)
C9_RegistryRecordsChangeOnlyOnSuccessfulRefetch ==
    [][\A k \in DictKeys(all_dependencies) :
          /\ DictHas(all_dependencies', k)
          /\ DictGet(all_dependencies', k) # DictGet(all_dependencies, k) =>
                 /\ \E t \in Tasks, r \in OracleOutcomes :
                        /\ is_success(r)
                        /\ tasks[t].pc = "awaiting"
                        /\ PendingKey(tasks[t]) = k
                        /\ fetch_vulnerabilities_resume(t, r)
                        /\ DictGet(all_dependencies', k).vulnerabilities =
                               Last(tasks'[t].app_dependencies).vulnerabilities
                 /\ cache_contains(cache', k)
                 /\ cache_getitem(cache', k) =
                        DictGet(all_dependencies', k).vulnerabilities
      ]_vars

\* A stored application holds a non-empty snapshot of a key, which was the
\* key's record when it was taken, and the key's record now differs.
C9_Witness ==
    \E i \in 1..Len(Apps) : \E j \in 1..Len(Apps[i].dependencies) :
        LET d == Apps[i].dependencies[j]
        IN  /\ d.vulnerabilities # <<>>
            /\ DictHas(all_dependencies, KeyOf(d))
            /\ DictGet(all_dependencies, KeyOf(d)).vulnerabilities
                   # d.vulnerabilities

(* C10: application records are write-once.  A registration stores its     *)
(* application under an identifier that no stored application has, and a   *)
(* stored application is never removed and none of its fields, snapshots   *)
(* included, ever changes.                                                 *)
C10_ApplicationsWriteOnce ==
    [][/\ \A id \in DictKeys(applications) :
              /\ DictHas(applications', id)
              /\ DictGet(applications', id) = DictGet(applications, id)
       /\ \A t \in Tasks :
              Finishes(t) =>
                  /\ Len(applications') = Len(applications) + 1
                  /\ Last(applications')[1] \notin DictKeys(applications)
                  /\ Last(applications')[2].id = Last(applications')[1]
                  /\ Last(applications')[2].name = tasks[t].name
                  /\ Last(applications')[2].description = tasks[t].description
      ]_vars

\* Two registrations have ended and their applications are stored under
\* two identifiers.
C10_Witness ==
    /\ Len(applications) = 2
    /\ applications[1][1] # applications[2][1]
    /\ uuid_count = 2

(* C11: parse_requirements returns exactly one (name, version) pair for    *)
(* each input line that, trimmed, is non-empty and does not start with     *)
(* '#', in the order of those lines (each pair's name starts its line and  *)
(* its version, unless the default, ends it); blank and comment lines      *)
(* contribute nothing.                                                     *)
C11_OnePairPerAcceptedLineInOrder ==
    tasks.pc = "returned" =>
        LET lines == AcceptedLines(tasks.requirements)
            deps == tasks.dependencies
        IN  /\ Len(deps) = Len(lines)
            /\ \A i \in 1..Len(deps) :
                   /\ IsPrefix(deps[i].name, lines[i])
                   /\ \/ IsSuffix(deps[i].version, lines[i])
                      \/ deps[i].version = Unknown

\* A manifest with a comment line, a blank line and two accepted lines of
\* different names has been parsed to two pairs.
C11_Witness ==
    /\ tasks.pc = "returned"
    /\ Len(splitlines(tasks.requirements)) >= 4
    /\ \E i \in 1..Len(splitlines(tasks.requirements)) :
           startswith(strip(splitlines(tasks.requirements)[i]), "#")
    /\ \E i \in 1..Len(splitlines(tasks.requirements)) :
           strip(splitlines(tasks.requirements)[i]) = <<>>
    /\ Len(tasks.dependencies) >= 2
    /\ tasks.dependencies[1].name # tasks.dependencies[2].name

(* C12, as claimed: each accepted line is split once at the first          *)
(* occurrence of one of ==, >=, <=, >, < (tried in that order); the name   *)
(* is the trimmed text before the split, the version the trimmed text      *)
(* after it, and the version is "Unknown" exactly when the line contains   *)
(* none of the operators.  It fails for a line such as "a==Unknown": the   *)
(* text after an operator can spell the default.                           *)
C12_VersionUnknownExactlyWhenNoOperator ==
    tasks.pc = "returned" =>
        LET lines == AcceptedLines(tasks.requirements)
            deps == tasks.dependencies
        IN  /\ Len(deps) = Len(lines)
            /\ \A i \in 1..Len(deps) :
                   /\ HasOperator(lines[i]) =>
                          SplitAtFirstOperator(lines[i], deps[i])
                   /\ ~HasOperator(lines[i]) => deps[i].name = lines[i]
                   /\ deps[i].version = Unknown <=> ~HasOperator(lines[i])

(* C12, amended: each accepted line is split once at the first occurrence  *)
(* of one of ==, >=, <=, >, < (tried in that order); the name is the       *)
(* trimmed text before the split and the version the trimmed text after    *)
(* it, whatever that text is; a line that contains none of the operators   *)
(* is the name as a whole, with the version "Unknown".                     *)
C12_SplitAtFirstOperatorElseUnknown ==
    tasks.pc = "returned" =>
        LET lines == AcceptedLines(tasks.requirements)
            deps == tasks.dependencies
        IN  /\ Len(deps) = Len(lines)
            /\ \A i \in 1..Len(deps) :
                   IF HasOperator(lines[i])
                   THEN SplitAtFirstOperator(lines[i], deps[i])
                   ELSE /\ deps[i].name = lines[i]
                        /\ deps[i].version = Unknown

\* A parsed manifest with a line split at ">=" (where ">" occurs too), with
\* a line that has a second operator after the split, and with a line
\* without operator.
C12_Witness ==
    /\ tasks.pc = "returned"
    /\ \E i, j, k \in 1..Len(tasks.dependencies) :
           LET lines == AcceptedLines(tasks.requirements)
           IN  /\ \E p \in 1..Len(lines[i]) :
                      /\ OccursAt(<<">", "=">>, lines[i], p)
                      /\ IsPrefix(tasks.dependencies[i].name,
                                  SubSeq(lines[i], 1, p - 1))
                      /\ tasks.dependencies[i].version # <<>>
                      /\ tasks.dependencies[i].version[1] # "="
               /\ HasOperator(tasks.dependencies[j].version)
               /\ ~HasOperator(lines[k])
               /\ tasks.dependencies[k].version = Unknown

(* C13: starting from empty stores, registering one application whose     *)
(* manifest holds a single key for which the oracle successfully reports   *)
(* at least one vulnerability returns has_vulnerabilities = true, and a    *)
(* list-all-dependencies after it returns exactly one entry, that key,     *)
(* with vulnerable = true.                                                 *)
C13_SingleVulnerableKeyEndToEnd ==
    /\ \A t \in Tasks :
           (/\ uuid_count = 0
            /\ \A u \in Tasks \ {t} : tasks[u].pc = "idle"
            /\ tasks[t].pc = "resolving"
            /\ Len(tasks[t].deps) = 1
            /\ Len(tasks[t].app_dependencies) = 1
            /\ tasks[t].app_dependencies[1].vulnerabilities # <<>>) =>
               /\ ReturnedSummary(t).status = 200
               /\ ReturnedSummary(t).body.has_vulnerabilities
    /\ (/\ uuid_count = 1
        /\ \A u \in Tasks : tasks[u].pc = "idle"
        /\ Len(Apps[1].dependencies) = 1
        /\ Apps[1].dependencies[1].vulnerabilities # <<>>) =>
           LET r == get_dependencies_response
               d == Apps[1].dependencies[1]
           IN  /\ r.status = 200
               /\ Len(r.body) = 1
               /\ r.body[1].name = d.name
               /\ r.body[1].version = d.version
               /\ r.body[1].vulnerabilities = d.vulnerabilities
               /\ r.body[1].vulnerable

\* The only registration so far has ended, its single snapshot is not
\* empty, and list-all-dependencies shows one vulnerable entry.
C13_Witness ==
    /\ uuid_count = 1
    /\ \A u \in Tasks : tasks[u].pc = "idle"
    /\ Len(Apps[1].dependencies) = 1
    /\ Apps[1].dependencies[1].vulnerabilities # <<>>
    /\ Len(get_dependencies_response.body) = 1
    /\ get_dependencies_response.body[1].vulnerable

(* C14: when fetch_vulnerabilities is called for a key that is present    *)
(* and unexpired in the cache, it returns the cached list, makes no oracle *)
(* query, and leaves all_dependencies, applications and the cache as they  *)
(* are.  The calls that hit run inside the step in which the registration  *)
(* goes on to its next miss or to its end: every snapshot taken in such a  *)
(* step holds the list cached for its key, the cache and all_dependencies  *)
(* are unchanged, a query is sent only for the first key not in the cache, *)
(* and applications changes by nothing but the registration's own record.  *)
C14_CacheHitReturnsCachedAndWritesNothing ==
    [][\A t \in Tasks :
          (Queries(t) \/ Finishes(t)) =>
              LET before == tasks[t].app_dependencies
                  after == IF Finishes(t)
                           THEN Last(applications')[2].dependencies
                           ELSE tasks'[t].app_dependencies
              IN  /\ IsPrefix(before, after)
                  /\ \A i \in (Len(before) + 1)..Len(after) :
                         /\ KeyOf(after[i]) = KeyOf(tasks[t].deps[i])
                         /\ cache_contains(cache, KeyOf(after[i]))
                         /\ \E j \in 1..Len(cache) :
                                /\ cache[j].key = KeyOf(after[i])
                                /\ cache[j].remaining > 0
                                /\ cache[j].value = after[i].vulnerabilities
                  /\ cache' = cache
                  /\ all_dependencies' = all_dependencies
                  /\ Queries(t) =>
                         /\ applications' = applications
                         /\ ~cache_contains(cache, PendingKey(tasks'[t]))
                  /\ Finishes(t) =>
                         /\ Len(after) = Len(tasks[t].deps)
                         /\ SubSeq(applications', 1, Len(applications)) =
                                applications
      ]_vars

\* A registration has resolved the first of its two keys by a query and its
\* second key is in the cache: the call for it hits and returns the cached
\* list, which is not empty.
C14_Witness ==
    \E t \in Tasks :
        /\ tasks[t].pc = "resolving"
        /\ Len(tasks[t].deps) = 2
        /\ Len(tasks[t].app_dependencies) = 1
        /\ cache_contains(cache, PendingKey(tasks[t]))
        /\ LET snaps == resolve_hits(tasks[t].deps, tasks[t].app_dependencies)
           IN  /\ Len(snaps) = 2
               /\ snaps[2].vulnerabilities # <<>>
               /\ snaps[2].vulnerabilities =
                      cache_getitem(cache, PendingKey(tasks[t]))

(* C15: the stored dependency list of a registered application has the    *)
(* length and the (name, version) keys, in order and with repetitions, of  *)
(* the sequence parsed from its manifest, and each snapshot holds the list *)
(* fetch_vulnerabilities returned for that key during this registration;   *)
(* the keys are resolved one at a time in manifest order.  Step by step:   *)
(* a registration starts with the parse of its manifest and no snapshot;   *)
(* its parsed sequence never changes; its snapshots only grow, the i-th    *)
(* being of the i-th parsed key; a query is sent for the key that follows  *)
(* the snapshots taken, and its return adds that key's snapshot alone,     *)
(* empty or the list just cached; the application is stored with the       *)
(* snapshots taken, completed up to the parsed length.                     *)
C15_StoredDependenciesFollowManifest ==
    [][\A t \in Tasks :
          /\ (tasks[t].pc = "idle" /\ tasks'[t].pc # "idle") =>
                 /\ \E m \in Manifests :
                        tasks'[t].deps = parse_requirements(m)
                 /\ tasks'[t].app_dependencies = <<>>
          /\ (tasks[t].pc # "idle" /\ tasks'[t].pc # "idle") =>
                 /\ tasks'[t].deps = tasks[t].deps
                 /\ IsPrefix(tasks[t].app_dependencies,
                             tasks'[t].app_dependencies)
                 /\ Len(tasks'[t].app_dependencies) <= Len(tasks[t].deps)
                 /\ \A i \in 1..Len(tasks'[t].app_dependencies) :
                        KeyOf(tasks'[t].app_dependencies[i]) =
                            KeyOf(tasks[t].deps[i])
          /\ Queries(t) =>
                 Len(tasks'[t].app_dependencies) < Len(tasks[t].deps)
          /\ Returns(t) =>
                 /\ Len(tasks'[t].app_dependencies) =
                        Len(tasks[t].app_dependencies) + 1
                 /\ LET returned ==
                            Last(tasks'[t].app_dependencies).vulnerabilities
                    IN  \/ returned = <<>>
                        \/ /\ cache_contains(cache', PendingKey(tasks[t]))
                           /\ cache_getitem(cache', PendingKey(tasks[t]))
                                  = returned
          /\ Finishes(t) =>
                 LET stored == Last(applications')[2].dependencies
                 IN  /\ Len(stored) = Len(tasks[t].deps)
                     /\ \A i \in 1..Len(stored) :
                            KeyOf(stored[i]) = KeyOf(tasks[t].deps[i])
                     /\ IsPrefix(tasks[t].app_dependencies, stored)
      ]_vars

\* An application is stored with the two snapshots of a manifest that names
\* one key twice, the first empty and the second not.
C15_Witness ==
    \E i \in 1..Len(Apps) :
        /\ Len(Apps[i].dependencies) = Len(parse_requirements(ManifestQQ))
        /\ \A j \in 1..Len(Apps[i].dependencies) :
               KeyOf(Apps[i].dependencies[j]) =
                   KeyOf(parse_requirements(ManifestQQ)[j])
        /\ Apps[i].dependencies[1].vulnerabilities = <<>>
        /\ Apps[i].dependencies[2].vulnerabilities # <<>>

(* C16: for registrations running concurrently, interleaved at their      *)
(* oracle calls (two of them may resolve the same new key and both query   *)
(* the oracle), no update of applications is lost: applications holds one  *)
(* record, under its own identifier, per completed registration, and a     *)
(* registration that completes adds to the records already there one with  *)
(* the name, the description and the dependency list of its own request.   *)
C16_NoLostApplicationUpdate ==
    /\ [](/\ Len(applications) = uuid_count
          /\ \A i, j \in 1..Len(applications) :
                 applications[i][1] = applications[j][1] => i = j
          /\ \A i \in 1..Len(applications) :
                 applications[i][2].id = applications[i][1])
    /\ [][\A t \in Tasks :
             Finishes(t) =>
                 /\ Len(applications') = Len(applications) + 1
                 /\ SubSeq(applications', 1, Len(applications)) = applications
                 /\ LET appl == Last(applications')[2]
                    IN  /\ appl.name = tasks[t].name
                        /\ appl.description = tasks[t].description
                        /\ IsPrefix(tasks[t].app_dependencies,
                                    appl.dependencies)
                        /\ Len(appl.dependencies) = Len(tasks[t].deps)
                        /\ \A i \in 1..Len(appl.dependencies) :
                               KeyOf(appl.dependencies[i]) =
                                   KeyOf(tasks[t].deps[i])
         ]_vars

\* Two registrations missed the cache for one key and both queried the
\* oracle: one of them has cached its answer and stored its application
\* while the other still waits for the oracle.
C16_Witness ==
    \E t \in Tasks :
        /\ tasks[t].pc = "awaiting"
        /\ cache_contains(cache, PendingKey(tasks[t]))
        /\ Len(applications) = 1
        /\ HoldsKey(Apps[1], PendingKey(tasks[t]))
        /\ tasks[t].name # Apps[1].name

(* C17: the read operations get_applications, get_app_dependencies,       *)
(* get_dependencies and get_dependency_details leave applications,         *)
(* all_dependencies and the cache unchanged, whether they return a result  *)
(* or signal not-found.                                                    *)
C17_ReadsChangeNoStore ==
    [][(\/ get_applications
        \/ \E app_id \in AppIds : get_app_dependencies(app_id)
        \/ get_dependencies
        \/ \E key \in QueryKeys : get_dependency_details(key[1], key[2]))
           => UNCHANGED <<applications, all_dependencies, cache>>
      ]_vars

\* The stores are not empty, and the reads answer with a result for a
\* stored application and a registered key and with not-found for an
\* unknown identifier and an unknown key.
C17_Witness ==
    /\ cache # <<>>
    /\ get_applications_response.body # <<>>
    /\ get_dependencies_response.status = 200
    /\ get_dependencies_response.body # <<>>
    /\ \E app_id \in AppIds : get_app_dependencies_response(app_id).status = 200
    /\ \E app_id \in AppIds : get_app_dependencies_response(app_id).status = 404
    /\ \E key \in QueryKeys :
           get_dependency_details_response(key[1], key[2]).status = 200
    /\ \E key \in QueryKeys :
           get_dependency_details_response(key[1], key[2]).status = 404

(* C18: in every reachable state, under any interleaving of concurrent    *)
(* registrations and cache expiries, every key present in the cache is a   *)
(* key of all_dependencies and the record's vulnerability list equals the  *)
(* cached list for that key.                                               *)
C18_CachedKeysAgreeWithRegistry ==
    \A j \in 1..Len(cache) :
        cache[j].remaining > 0 =>
            /\ cache_contains(cache, cache[j].key)
            /\ DictHas(all_dependencies, cache[j].key)
            /\ DictGet(all_dependencies, cache[j].key).vulnerabilities =
                   cache_getitem(cache, cache[j].key)

\* A key is in the cache with a list that differs from the snapshot a
\* stored application took of it: the key was answered twice, differently,
\* and the later answer is in the cache and in all_dependencies.
C18_Witness ==
    \E j \in 1..Len(cache) : \E i \in 1..Len(Apps) :
        \E d \in 1..Len(Apps[i].dependencies) :
            /\ cache[j].remaining > 0
            /\ KeyOf(Apps[i].dependencies[d]) = cache[j].key
            /\ Apps[i].dependencies[d].vulnerabilities # <<>>
            /\ cache[j].value # Apps[i].dependencies[d].vulnerabilities
            /\ DictGet(all_dependencies, cache[j].key).vulnerabilities =
                   cache[j].value

(* C19: in every reachable state, every dependency view returned by        *)
(* get_app_dependencies is self-consistent: its vulnerable flag is true if *)
(* and only if the vulnerabilities list of that same view is non-empty.    *)
(* The code breaks it: the list is the application's snapshot and the flag *)
(* is read from the key's current record in all_dependencies, which a      *)
(* later answer of the oracle overwrites.                                  *)
C19_DependencyViewsSelfConsistent ==
    \A app_id \in AppIds :
        LET r == get_app_dependencies_response(app_id)
        IN  r.status = 200 =>
                \A i \in 1..Len(r.body) :
                    r.body[i].vulnerable <=> r.body[i].vulnerabilities # <<>>

============================================================================
